---- MODULE Spec2Model ----
(***************************************************************************)
(* Model of the resilience module (src/unnamed/part_002, imported by the   *)
(* tool registrations as "./resilience.js"): per-handler health records    *)
(* persisted in tool-health.json, the ordered fallback loop of             *)
(* withResilience, the n8n alert and resetTool.                            *)
(*                                                                         *)
(* One execution of a wrapped tool is a slot e.  Node runs each slot's     *)
(* code without interruption between two awaits, so one action is the code *)
(* from one await to the next: Call (entry up to the first handler.fn      *)
(* call), FnResolve / FnReject (the handler's promise settles, up to the   *)
(* next await or the return), AlertSettle (the awaited alertN8n promise    *)
(* settles), Return (the caller takes the envelope).                       *)
(* The lastFailure timestamp of a record and the timestamp/serverUrl of    *)
(* the alert body are not modelled: no decision reads them.                *)
(***************************************************************************)
EXTENDS Integers, Sequences, FiniteSets, TLC

FAILURE_THRESHOLD == 3

\* Bounds of the model: the largest failure count a record reaches, the
\* number of executions in flight at once, and the number of operations
\* (calls and resets) concurrent clients make.
MaxFailures == 4
MaxInFlight == 2
MaxCalls == 4
MaxExecutions == 4

\* Bounds of the OAuth model: the authorization codes issued, and the clock,
\* which reads up to MaxMillis ms past a multiple of the codes' lifetime, up
\* to MaxPeriods lifetimes.
MaxCodes == 2
MaxMillis == 2
MaxPeriods == 1

\* `expiresAt: Date.now() + 5 * 60 * 1000`: the lifetime of a code, in ms.
CODE_TTL == 300000

Slots == 1..MaxInFlight

\* The registrations: withResilience(toolName, handlers).
Tools == {"t1", "t2"}

Handlers(toolName) ==
  IF toolName = "t1" THEN <<"A", "B", "C">> ELSE <<"A">>

\* `${toolName}:${handlerName}`
KeyOf(toolName, handlerName) == toolName \o ":" \o handlerName

HandlerKey(toolName, j) == KeyOf(toolName, Handlers(toolName)[j])

AllKeys == UNION {{HandlerKey(t, j) : j \in 1..Len(Handlers(t))} : t \in Tools}

\* What each registered handler's promise resolves to when it succeeds: a
\* string, or a value that is serialised with JSON.stringify (given here
\* with its serialisation).
Resolves(toolName, j) ==
  IF j = 2 THEN [typeof |-> "object", json |-> "{\"rows\": 2}"]
  ELSE [typeof |-> "string", value |-> "ok " \o Handlers(toolName)[j]]

\* What each registered handler's promise rejects with when it fails: an
\* Error, or any other value.
Throws(toolName, j) ==
  IF j = 2 THEN [instanceofError |-> FALSE, string |-> "B failed"]
  ELSE [instanceofError |-> TRUE, message |-> Handlers(toolName)[j] \o " failed"]

\* `let lastError: unknown;`
Undefined == [instanceofError |-> FALSE, string |-> "undefined"]

\* What writeFileSync throws.
WriteError == [instanceofError |-> TRUE, message |-> "EACCES"]

NoValue == <<>>

\* The handlers fail or succeed freely.
NoRegime == [tool |-> "", done |-> 0, fromEmpty |-> FALSE]

\* No direct store operation yet.
NoPair == <<>>

\* (toolName, handlerName) pairs, some of whose names contain ':'.
KeyPairs == {<<"a:b", "c">>, <<"a", "b:c">>, <<"a", "b">>, <<"b", "c">>}

\* OAuth (src/src/oauth.ts). The codes crypto.randomBytes(32) gives, taken
\* as distinct: the n-th code issued is n.
Codes == 1..MaxCodes

\* A query or body parameter that is not given.
Absent == "(absent)"

\* config.clientId, config.clientSecret
CLIENT_ID == "client"
CLIENT_SECRET == "secret"

ClientIds == {CLIENT_ID, "other"}
ClientSecrets == {CLIENT_SECRET, "wrong"}
RedirectUris == {"https://a/cb", "https://b/cb"}
ResponseTypes == {"code", "token"}
GrantTypes == {"authorization_code", "refresh_token"}
Challenges == {Absent, "h"}
ChallengeMethods == {Absent, "S256"}
Verifiers == {Absent, "v", "h"}

\* crypto.createHash("sha256").update(v).digest("base64url"), on the
\* verifiers of the model.
Sha256(v) == IF v = "v" THEN "h" ELSE IF v = "" THEN "e" ELSE "x"

\* No request answered yet.
NoReply == [endpoint |-> "", code |-> 0, grant |-> "", status |-> 0, error |-> "",
            description |-> "", wasMinted |-> FALSE, wasExpired |-> FALSE]

\* No resetTool call since the store was last written by an execution.
NoReset == [key |-> "", wasDisabled |-> FALSE]

VARIABLES
  health,      \* the contents of HEALTH_FILE: key -> HandlerHealth
  fileState,   \* HEALTH_FILE is "missing", "garbage" (JSON.parse throws) or an "object"
  writable,    \* whether HEALTH_FILE can be written (writeFileSync succeeds)
  webhook,     \* whether N8N_ALERT_WEBHOOK_URL is set
  pc,          \* per slot: "idle", "fn", "alert", "returned", "raised"
  tool,        \* per slot: toolName of the execution
  state,       \* per slot: `const state = loadHealth()` of the execution
  i,           \* per slot: the loop index (1-based)
  lastError,   \* per slot: `let lastError`
  ret,         \* per slot: the text of the returned envelope, as its fragments
  fetching,    \* per slot: the alert's fetch() is outstanding
  alertBody,   \* per slot: the body of the alert being sent
  log,         \* history, per slot: what the loop did to each handler
  lastFetch,   \* history, per slot: how the last alert's fetch() settled
  consec,      \* history, per key: failed attempts since the last success or reset
  alertedAt,   \* history, per key: the values of consec at which an alert was POSTed
  scenarioCall, \* history: calls completed of the [A,B,C] scenario, -1 when left
  calls,       \* history: operations made by concurrent clients
  resetRun,    \* history: the handler last reset, while no execution has written since
  lastPair,    \* history: the (toolName, handlerName) of the last direct store operation
  regime,      \* history: the tool whose handlers now always fail, and its executions since
  authCodes,   \* oauth.ts `authCodes`: code -> StoredCode
  accessTokens, \* oauth.ts `accessTokens`
  now,         \* Date.now()
  nextCode,    \* the number of authorization codes /authorize has issued
  minted,      \* history, per code: the access tokens /token has issued for it
  lastReply    \* history: the last response of /authorize or /token, and what it answered

vars == <<health, fileState, writable, webhook, pc, tool, state, i, lastError, ret,
          fetching, alertBody, log, lastFetch, consec, alertedAt, scenarioCall, calls,
          resetRun, lastPair, regime,
          authCodes, accessTokens, now, nextCode, minted, lastReply>>

resilienceVars == <<health, fileState, writable, webhook, pc, tool, state, i, lastError, ret,
                    fetching, alertBody, log, lastFetch, consec, alertedAt, scenarioCall,
                    calls, resetRun, lastPair, regime>>

oauthVars == <<authCodes, accessTokens, now, nextCode, minted, lastReply>>

slotVars == <<pc, tool, state, i, lastError, ret, fetching, alertBody, log, lastFetch>>

----------------------------------------------------------------------------
\* State persistence and health helpers

Healthy == [failures |-> 0, degraded |-> FALSE]

\* A loadHealth that salvages the records of a file that does not parse.
loadHealth_Salvages == health

\* loadHealth: the parsed file, or {} when readFileSync or JSON.parse throws.
loadHealth == IF fileState = "object" THEN health ELSE [k \in {} |-> Healthy]

\* saveHealth: whether writeFileSync succeeds; it throws otherwise.
saveHealth == writable

\* getHandler(state, key)
getHandler(st, key) == IF key \in DOMAIN st THEN st[key] ELSE Healthy

\* state[key] = value
Put(st, key, value) ==
  [k \in DOMAIN st \cup {key} |-> IF k = key THEN value ELSE st[k]]

\* A recordSuccess that zeroes the counter and leaves the degraded flag.
recordSuccess_KeepsFlag(st, toolName, handlerName) ==
  Put(st, KeyOf(toolName, handlerName),
      [failures |-> 0, degraded |-> getHandler(st, KeyOf(toolName, handlerName)).degraded])

\* A recordSuccess that writes nothing for a key that has no record.
recordSuccess_Lazy(st, toolName, handlerName) ==
  IF KeyOf(toolName, handlerName) \in DOMAIN st
  THEN Put(st, KeyOf(toolName, handlerName), Healthy)
  ELSE st

\* A recordSuccess that resets every record of the store.
recordSuccess_HealsAll(st, toolName, handlerName) ==
  [k \in DOMAIN st \cup {KeyOf(toolName, handlerName)} |-> Healthy]

\* recordSuccess: the state it saves.
recordSuccess(st, toolName, handlerName) ==
  Put(st, KeyOf(toolName, handlerName), Healthy)

\* A recordFailure whose threshold test is `>` for `>=`.
FailedRecord_OffByOne(h, error) ==
  [failures |-> h.failures + 1,
   degraded |-> IF h.failures + 1 > FAILURE_THRESHOLD THEN TRUE ELSE h.degraded,
   lastError |-> error]

\* recordFailure, lines 93-99: the record after one more failure.
FailedRecord(h, error) ==
  [failures |-> h.failures + 1,
   degraded |-> IF h.failures + 1 >= FAILURE_THRESHOLD THEN TRUE ELSE h.degraded,
   lastError |-> error]

\* A recordFailure that saves the new count with the flag as it was (the
\* flag being set after the save).
recordFailure_SavesBeforeFlag(st, toolName, handlerName, error) ==
  Put(st, KeyOf(toolName, handlerName),
      [failures |-> getHandler(st, KeyOf(toolName, handlerName)).failures + 1,
       degraded |-> getHandler(st, KeyOf(toolName, handlerName)).degraded,
       lastError |-> error])

\* A recordFailure that saves a store holding the failed record alone.
recordFailure_DropsOthers(st, toolName, handlerName, error) ==
  Put([k \in {} |-> Healthy], KeyOf(toolName, handlerName),
      FailedRecord(getHandler(st, KeyOf(toolName, handlerName)), error))

\* recordFailure: the state it saves.
recordFailure(st, toolName, handlerName, error) ==
  Put(st, KeyOf(toolName, handlerName),
      FailedRecord(getHandler(st, KeyOf(toolName, handlerName)), error))

\* recordFailure's return value, `h.degraded`.
nowDegraded(st, toolName, handlerName, error) ==
  FailedRecord(getHandler(st, KeyOf(toolName, handlerName)), error).degraded

\* A resetTool that clears the flag and leaves the counter.
resetTool_KeepsCount(st, toolName, handlerName) ==
  Put(st, KeyOf(toolName, handlerName),
      [failures |-> getHandler(st, KeyOf(toolName, handlerName)).failures,
       degraded |-> FALSE])

\* A resetTool that takes the threshold off the counter.
resetTool_StepsDown(st, toolName, handlerName) ==
  Put(st, KeyOf(toolName, handlerName),
      [failures |->
         IF getHandler(st, KeyOf(toolName, handlerName)).failures > FAILURE_THRESHOLD
         THEN getHandler(st, KeyOf(toolName, handlerName)).failures - FAILURE_THRESHOLD
         ELSE 0,
       degraded |-> FALSE])

\* A resetTool that saves a store holding the reset record alone.
resetTool_Overwrites(st, toolName, handlerName) ==
  Put([k \in {} |-> Healthy], KeyOf(toolName, handlerName), Healthy)

\* resetTool: the state it saves.
resetTool(st, toolName, handlerName) ==
  Put(st, KeyOf(toolName, handlerName), Healthy)

\* isDegraded(toolName, handlerName)
isDegraded(toolName, handlerName) ==
  getHandler(loadHealth, KeyOf(toolName, handlerName)).degraded

----------------------------------------------------------------------------
\* withResilience

\* An every() that looks the handlers up by name alone, without the tool.
allDegraded_BareName(st, toolName) ==
  \A j \in 1..Len(Handlers(toolName)) : getHandler(st, Handlers(toolName)[j]).degraded

\* An every() that is bypassed for a list of one handler.
allDegraded_SoleExempt(st, toolName) ==
  /\ Len(Handlers(toolName)) > 1
  /\ \A j \in 1..Len(Handlers(toolName)) : getHandler(st, HandlerKey(toolName, j)).degraded

\* `handlers.every(h => getHandler(state, key).degraded)`
allDegraded(st, toolName) ==
  \A j \in 1..Len(Handlers(toolName)) : getHandler(st, HandlerKey(toolName, j)).degraded

\* A hasFallback that is `i < handlers.length`: true of the last handler too.
hasFallback_IncludesLast(toolName, j) == j <= Len(Handlers(toolName))

\* `const hasFallback = i < handlers.length - 1` (1-based here)
hasFallback(toolName, j) == j < Len(Handlers(toolName))

\* A skip test that reads the handler's record from the file, not from the
\* snapshot.
Skipped_ReadsStore(st, toolName, j) ==
  getHandler(loadHealth, HandlerKey(toolName, j)).degraded /\ hasFallback(toolName, j)

\* A loop that never skips.
Skipped_Never(st, toolName, j) == FALSE

\* `if (health.degraded && hasFallback) continue`
Skipped(st, toolName, j) ==
  getHandler(st, HandlerKey(toolName, j)).degraded /\ hasFallback(toolName, j)

\* A loop that goes back to the handler that has just failed.
NextAttempt_Retries(st, toolName, j) == IF j > 1 THEN j - 1 ELSE j

\* The for loop from index j: the index of the next handler it calls, or
\* handlers.length + 1 when it runs off the end.
RECURSIVE NextAttempt(_, _, _)
NextAttempt(st, toolName, j) ==
  IF j > Len(Handlers(toolName)) THEN j
  ELSE IF Skipped(st, toolName, j) THEN NextAttempt(st, toolName, j + 1)
  ELSE j

\* `typeof result === "string" ? result : JSON.stringify(result, null, 2)`
ResultText(result) ==
  IF result.typeof = "string" THEN result.value ELSE result.json

\* A catch block that keeps the first error of the call.
SetLastError_KeepFirst(prev, err) ==
  IF prev = [instanceofError |-> FALSE, string |-> "undefined"] THEN err ELSE prev

\* `lastError = err`
SetLastError(prev, err) == err

\* `err instanceof Error ? err.message : String(err)`
ErrorMsg(err) == IF err.instanceofError THEN err.message ELSE err.string

\* The three envelope texts, as the fragments of their template literals
\* (the dash of the [DISABLED] text is written in ASCII).
SuccessText(result) == <<ResultText(result)>>

DisabledText(toolName) ==
  <<"[DISABLED] Tool \"", toolName,
    "\" is temporarily disabled - all handlers are degraded. Use resetTool() to re-enable.">>

ErrorText(toolName, err) ==
  <<"[ERROR] Tool \"", toolName, "\" failed: ", ErrorMsg(err)>>

\* The alert's JSON body: tool, error, failureCount.
AlertBody(toolName, handlerName, errorMsg) ==
  [tool |-> KeyOf(toolName, handlerName), error |-> errorMsg,
   failureCount |-> FAILURE_THRESHOLD]

\* An alertN8n without the try/catch around fetch.
alertN8n_NoCatch(url, fetchOutcome) ==
  IF ~url THEN "resolved" ELSE fetchOutcome

\* alertN8n: how its promise settles, given whether the webhook URL is set
\* and how fetch settled. A rejected fetch is caught and logged.
alertN8n(url, fetchOutcome) ==
  IF ~url THEN "resolved"
  ELSE IF fetchOutcome = "rejected" THEN "resolved"
  ELSE "resolved"

\* The log entries of the handlers the loop passes over between from and to.
SkipEntries(from, to) == [j \in 1..(to - from) |-> [index |-> from + j - 1, what |-> "skip"]]


----------------------------------------------------------------------------
\* The state after construction: no health file yet, no execution in flight.

Init ==
  /\ health = [k \in {} |-> Healthy]
  /\ fileState = "missing"
  /\ writable = TRUE
  /\ webhook \in BOOLEAN
  /\ pc = [e \in Slots |-> "idle"]
  /\ tool = [e \in Slots |-> ""]
  /\ state = [e \in Slots |-> [k \in {} |-> Healthy]]
  /\ i = [e \in Slots |-> 0]
  /\ lastError = [e \in Slots |-> Undefined]
  /\ ret = [e \in Slots |-> NoValue]
  /\ fetching = [e \in Slots |-> FALSE]
  /\ alertBody = [e \in Slots |-> NoValue]
  /\ log = [e \in Slots |-> <<>>]
  /\ lastFetch = [e \in Slots |-> "none"]
  /\ consec = [k \in AllKeys |-> 0]
  /\ alertedAt = [k \in AllKeys |-> {}]
  /\ scenarioCall = 0
  /\ calls = 0
  /\ resetRun = NoReset
  /\ lastPair = NoPair
  /\ regime = NoRegime
  /\ authCodes = [c \in {} |-> NoValue]
  /\ accessTokens = {}
  /\ now = 0
  /\ nextCode = 0
  /\ minted = [c \in Codes |-> 0]
  /\ lastReply = NoReply

\* The for loop of slot e from index j, up to the next handler.fn call or,
\* past the last handler, the [ERROR] return.
Loop(e, st, toolName, j, err, lg) ==
  LET nx == NextAttempt(st, toolName, j)
      lg2 == lg \o SkipEntries(j, nx)
  IN /\ i' = [i EXCEPT ![e] = nx]
     /\ log' = [log EXCEPT ![e] = lg2]
     /\ IF nx > Len(Handlers(toolName))
        THEN /\ pc' = [pc EXCEPT ![e] = "returned"]
             /\ ret' = [ret EXCEPT ![e] = ErrorText(toolName, err)]
        ELSE /\ pc' = [pc EXCEPT ![e] = "fn"]
             /\ ret' = ret

\* The wrapped tool is called: lines 167-201, up to `await handler.fn(args)`.
Call(e, toolName) ==
  /\ pc[e] = "idle"
  /\ tool' = [tool EXCEPT ![e] = toolName]
  /\ state' = [state EXCEPT ![e] = loadHealth]
  /\ lastError' = [lastError EXCEPT ![e] = Undefined]
  /\ IF allDegraded(loadHealth, toolName)
     THEN /\ pc' = [pc EXCEPT ![e] = "returned"]
          /\ ret' = [ret EXCEPT ![e] = DisabledText(toolName)]
          /\ UNCHANGED <<i, log>>
     ELSE Loop(e, loadHealth, toolName, 1, Undefined, <<>>)
  /\ scenarioCall' =
       IF scenarioCall \in 0..3 /\ toolName = "t1" /\ \A f \in Slots : pc[f] = "idle"
       THEN scenarioCall ELSE -1
  /\ UNCHANGED <<oauthVars, regime, lastPair, health, fileState, writable, webhook, fetching, alertBody, lastFetch,
                 consec, alertedAt, resetRun>>

\* handler.fn resolves: lines 201-209. When the file cannot be written,
\* recordSuccess throws inside the try, the catch takes the write error for a
\* handler failure, and recordFailure throws again, out of the wrapper.
\* (The histories consec and alertedAt follow the recorded outcomes.)
FnResolve(e) ==
  /\ pc[e] = "fn"
  /\ LET name == Handlers(tool[e])[i[e]]
         key == KeyOf(tool[e], name)
         result == Resolves(tool[e], i[e])
     IN /\ log' = [log EXCEPT ![e] = Append(@, [index |-> i[e], what |-> "ok", value |-> result])]
        /\ IF saveHealth
           THEN /\ health' = recordSuccess(loadHealth, tool[e], name)
                /\ pc' = [pc EXCEPT ![e] = "returned"]
                /\ ret' = [ret EXCEPT ![e] = SuccessText(result)]
                /\ consec' = [consec EXCEPT ![key] = 0]
                /\ alertedAt' = [alertedAt EXCEPT ![key] = {}]
                /\ UNCHANGED lastError
           ELSE /\ pc' = [pc EXCEPT ![e] = "raised"]
                /\ lastError' = [lastError EXCEPT ![e] = WriteError]
                /\ UNCHANGED <<health, ret, consec, alertedAt>>
  /\ resetRun' = IF saveHealth THEN NoReset ELSE resetRun
  /\ fileState' = IF saveHealth THEN "object" ELSE fileState
  /\ scenarioCall' =
       IF scenarioCall \in 0..2 /\ i[e] = 3 THEN scenarioCall + 1 ELSE -1
  /\ UNCHANGED <<oauthVars, regime, lastPair, calls, writable, webhook, tool, state, i, fetching, alertBody, lastFetch>>

\* The cap of the failure counters: MaxFailures, and one more for each
\* execution of a tool whose handlers always fail.
FailureCap == IF regime.tool = "" THEN MaxFailures ELSE MaxFailures + MaxExecutions

\* handler.fn rejects: lines 210-227, up to `await alertN8n(...)` or, when
\* the handler is not degraded by it, on through the loop. When the file
\* cannot be written, recordFailure throws out of the catch block.
FnReject(e) ==
  /\ pc[e] = "fn"
  /\ LET name == Handlers(tool[e])[i[e]]
         key == KeyOf(tool[e], name)
         err == Throws(tool[e], i[e])
         lg == Append(log[e], [index |-> i[e], what |-> "fail", error |-> err])
     IN /\ getHandler(loadHealth, key).failures < FailureCap
        /\ consec[key] < FailureCap
        /\ lastError' = [lastError EXCEPT ![e] = SetLastError(@, err)]
        /\ IF ~saveHealth
           THEN /\ pc' = [pc EXCEPT ![e] = "raised"]
                /\ log' = [log EXCEPT ![e] = lg]
                /\ UNCHANGED <<health, i, ret, fetching, alertBody, consec, alertedAt>>
           ELSE /\ health' = recordFailure(loadHealth, tool[e], name, ErrorMsg(err))
                /\ consec' = [consec EXCEPT ![key] = @ + 1]
                /\ IF nowDegraded(loadHealth, tool[e], name, ErrorMsg(err))
                   THEN /\ pc' = [pc EXCEPT ![e] = "alert"]
                        /\ log' = [log EXCEPT ![e] = lg]
                        /\ fetching' = [fetching EXCEPT ![e] = webhook]
                        /\ alertBody' = [alertBody EXCEPT ![e] =
                             IF webhook THEN AlertBody(tool[e], name, ErrorMsg(err))
                             ELSE NoValue]
                        /\ alertedAt' = [alertedAt EXCEPT ![key] =
                             IF webhook THEN @ \cup {consec[key] + 1} ELSE @]
                        /\ UNCHANGED <<i, ret>>
                   ELSE /\ Loop(e, state[e], tool[e], i[e] + 1,
                                SetLastError(lastError[e], err), lg)
                        /\ UNCHANGED <<fetching, alertBody, alertedAt>>
  /\ resetRun' = IF saveHealth THEN NoReset ELSE resetRun
  /\ fileState' = IF saveHealth THEN "object" ELSE fileState
  /\ scenarioCall' =
       IF scenarioCall \in 0..3 /\ i[e] \in {1, 2} THEN scenarioCall
       ELSE IF scenarioCall = 3 /\ i[e] = 3 THEN 4
       ELSE -1
  /\ UNCHANGED <<oauthVars, regime, lastPair, calls, writable, webhook, tool, state, lastFetch>>

\* The awaited alertN8n promise settles: lines 130-147 and 225-228.
AlertSettle(e, fetchOutcome) ==
  /\ pc[e] = "alert"
  /\ fetchOutcome \in (IF fetching[e] THEN {"resolved", "rejected"} ELSE {"not sent"})
  /\ fetching' = [fetching EXCEPT ![e] = FALSE]
  /\ alertBody' = [alertBody EXCEPT ![e] = NoValue]
  /\ lastFetch' = [lastFetch EXCEPT ![e] = fetchOutcome]
  /\ IF alertN8n(webhook, fetchOutcome) = "resolved"
     THEN Loop(e, state[e], tool[e], i[e] + 1, lastError[e], log[e])
     ELSE /\ pc' = [pc EXCEPT ![e] = "raised"]
          /\ UNCHANGED <<i, ret, log>>
  /\ UNCHANGED <<oauthVars, regime, lastPair, calls, health, fileState, writable, webhook, tool, state, lastError,
                 consec, alertedAt, scenarioCall, resetRun>>

\* The caller takes the envelope (or the rejection) of a finished execution.
Return(e) ==
  /\ pc[e] \in {"returned", "raised"}
  /\ pc' = [pc EXCEPT ![e] = "idle"]
  /\ tool' = [tool EXCEPT ![e] = ""]
  /\ state' = [state EXCEPT ![e] = [k \in {} |-> Healthy]]
  /\ i' = [i EXCEPT ![e] = 0]
  /\ lastError' = [lastError EXCEPT ![e] = Undefined]
  /\ ret' = [ret EXCEPT ![e] = NoValue]
  /\ log' = [log EXCEPT ![e] = <<>>]
  /\ lastFetch' = [lastFetch EXCEPT ![e] = "none"]
  /\ UNCHANGED <<oauthVars, lastPair, calls, health, fileState, writable, webhook, fetching,
                 alertBody, consec, alertedAt, scenarioCall, resetRun>>

\* resetTool(toolName, handlerName): lines 114-119. It throws, changing
\* nothing, when the file cannot be written.
ResetTool(toolName, j) ==
  /\ j \in 1..Len(Handlers(toolName))
  /\ saveHealth
  /\ health' = resetTool(loadHealth, toolName, Handlers(toolName)[j])
  /\ fileState' = "object"
  /\ consec' = [consec EXCEPT ![HandlerKey(toolName, j)] = 0]
  /\ alertedAt' = [alertedAt EXCEPT ![HandlerKey(toolName, j)] = {}]
  /\ scenarioCall' = -1
  /\ resetRun' =
       IF resetRun.key = HandlerKey(toolName, j)
       THEN resetRun
       ELSE [key |-> HandlerKey(toolName, j),
             wasDisabled |-> \A h \in 1..Len(Handlers(toolName)) :
                               getHandler(loadHealth, HandlerKey(toolName, h)).degraded]
  /\ UNCHANGED <<oauthVars, regime, lastPair, writable, webhook, slotVars>>

\* The health file becomes unwritable, or writable again.
DiskFault ==
  /\ writable' = ~writable
  /\ scenarioCall' = -1
  /\ UNCHANGED <<oauthVars, regime, lastPair, calls, health, fileState, webhook, slotVars, consec, alertedAt,
                 resetRun>>

\* The health file is damaged: its text no longer parses (health keeps the
\* records the damaged text held). The histories start again.
FileDamaged ==
  /\ fileState = "object"
  /\ fileState' = "garbage"
  /\ consec' = [k \in AllKeys |-> 0]
  /\ alertedAt' = [k \in AllKeys |-> {}]
  /\ scenarioCall' = -1
  /\ resetRun' = NoReset
  /\ UNCHANGED <<oauthVars, regime, lastPair, calls, health, writable, webhook, slotVars>>

\* The health file is removed.
FileLost ==
  /\ fileState # "missing"
  /\ fileState' = "missing"
  /\ health' = [k \in {} |-> Healthy]
  /\ consec' = [k \in AllKeys |-> 0]
  /\ alertedAt' = [k \in AllKeys |-> {}]
  /\ scenarioCall' = -1
  /\ resetRun' = NoReset
  /\ UNCHANGED <<oauthVars, regime, lastPair, calls, writable, webhook, slotVars>>

\* No execution is in flight.
Quiet == \A f \in Slots : pc[f] = "idle"

\* One client: each call is made after the previous one has returned.
Next ==
  \/ \E t \in Tools : Quiet /\ Call(1, t) /\ UNCHANGED calls
  \/ \E e \in Slots : FnResolve(e)
  \/ \E e \in Slots : FnReject(e)
  \/ \E e \in Slots, o \in {"resolved", "rejected", "not sent"} : AlertSettle(e, o)
  \/ \E e \in Slots : Return(e) /\ UNCHANGED regime
  \/ \E t \in Tools, j \in 1..3 : ResetTool(t, j) /\ UNCHANGED calls

Spec == Init /\ [][Next]_vars

\* The same with a health file whose writes may fail.
NextDisk == Next \/ DiskFault

SpecDisk == Init /\ [][NextDisk]_vars

\* The same as Spec with a health file that may be damaged or removed.
NextFile == Next \/ FileDamaged \/ FileLost

SpecFile == Init /\ [][NextFile]_vars

\* From now on every handler of toolName fails on every attempt and
\* resetTool is not called.
BeginFailing(toolName) ==
  /\ Quiet
  /\ regime = NoRegime
  /\ regime' = [tool |-> toolName, done |-> 0, fromEmpty |-> DOMAIN loadHealth = {}]
  /\ UNCHANGED <<oauthVars, health, fileState, writable, webhook, slotVars, consec, alertedAt,
                 scenarioCall, calls, resetRun, lastPair>>

\* Any history of calls and resets, then sequential executions of one tool
\* whose handlers all fail, MaxExecutions of them.
NextFailing ==
  \/ regime = NoRegime /\ Next
  \/ \E t \in Tools : BeginFailing(t)
  \/ /\ regime # NoRegime /\ regime.done < MaxExecutions
     /\ Quiet /\ Call(1, regime.tool) /\ UNCHANGED calls
  \/ regime # NoRegime /\ \E e \in Slots : FnReject(e)
  \/ regime # NoRegime /\ \E e \in Slots, o \in {"resolved", "rejected", "not sent"} :
                             AlertSettle(e, o)
  \/ regime # NoRegime /\ \E e \in Slots :
                             Return(e) /\ regime' = [regime EXCEPT !.done = @ + 1]

SpecFailing == Init /\ [][NextFailing]_vars

\* recordSuccess, recordFailure and resetTool for the pair p, as
\* withResilience and an operator call them for a tool and handler so named.
RecordSuccessFor(p) ==
  /\ health' = recordSuccess(loadHealth, p[1], p[2])
  /\ fileState' = "object"
  /\ lastPair' = p
  /\ UNCHANGED <<oauthVars, regime, writable, webhook, slotVars, consec, alertedAt, scenarioCall, calls,
                 resetRun>>

RecordFailureFor(p) ==
  /\ getHandler(loadHealth, KeyOf(p[1], p[2])).failures < MaxFailures
  /\ health' = recordFailure(loadHealth, p[1], p[2], p[2] \o " failed")
  /\ fileState' = "object"
  /\ lastPair' = p
  /\ UNCHANGED <<oauthVars, regime, writable, webhook, slotVars, consec, alertedAt, scenarioCall, calls,
                 resetRun>>

ResetToolFor(p) ==
  /\ health' = resetTool(loadHealth, p[1], p[2])
  /\ fileState' = "object"
  /\ lastPair' = p
  /\ UNCHANGED <<oauthVars, regime, writable, webhook, slotVars, consec, alertedAt, scenarioCall, calls,
                 resetRun>>

\* The store operations alone, for pairs of arbitrary names.
NextKeys ==
  \/ \E p \in KeyPairs : RecordSuccessFor(p)
  \/ \E p \in KeyPairs : RecordFailureFor(p)
  \/ \E p \in KeyPairs : ResetToolFor(p)

SpecKeys == Init /\ [][NextKeys]_vars

\* Several clients: up to MaxInFlight executions in flight, each call taking
\* the lowest free slot; MaxCalls calls and resets in all.
NextConc ==
  \/ \E e \in Slots, t \in Tools :
        /\ \A f \in Slots : f < e => pc[f] # "idle"
        /\ calls < MaxCalls
        /\ calls' = calls + 1
        /\ Call(e, t)
  \/ \E e \in Slots : FnResolve(e)
  \/ \E e \in Slots : FnReject(e)
  \/ \E e \in Slots, o \in {"resolved", "rejected", "not sent"} : AlertSettle(e, o)
  \/ \E e \in Slots : Return(e) /\ UNCHANGED regime
  \/ \E t \in Tools, j \in 1..3 : calls < MaxCalls /\ calls' = calls + 1 /\ ResetTool(t, j)

SpecConc == Init /\ [][NextConc]_vars

----------------------------------------------------------------------------
\* OAuth: src/src/oauth.ts, setupOAuth

\* A Map.delete that leaves the entry in place.
Delete_Keeps(codes, code) == codes

\* `authCodes.delete(code)`
Delete(codes, code) == [c \in DOMAIN codes \ {code} |-> codes[c]]

\* `stored.expiresAt < Date.now()`
Expired(stored, t) == stored.expiresAt < t

\* The PKCE verification of /token, lines 105-117: TRUE when it fails.
PkceFails(stored, code_verifier) ==
  IF stored.codeChallenge \in {Absent, ""} THEN FALSE
  ELSE IF stored.codeChallengeMethod = "S256"
       THEN Sha256(IF code_verifier = Absent THEN "" ELSE code_verifier) # stored.codeChallenge
       ELSE code_verifier # stored.codeChallenge

\* POST /token, lines 82-130: the response, the codes left in authCodes, and
\* whether an access token is issued.
TokenResponse(codes, t, req) ==
  IF req.grant_type # "authorization_code"
  THEN [status |-> 400, error |-> "unsupported_grant_type", description |-> "",
        codes |-> codes, issued |-> FALSE]
  ELSE IF req.code \notin DOMAIN codes \/ Expired(codes[req.code], t)
  THEN [status |-> 400, error |-> "invalid_grant", description |-> "",
        codes |-> Delete(codes, req.code), issued |-> FALSE]
  ELSE IF req.client_id # CLIENT_ID \/ req.client_secret # CLIENT_SECRET
  THEN [status |-> 401, error |-> "invalid_client", description |-> "",
        codes |-> codes, issued |-> FALSE]
  ELSE IF codes[req.code].redirectUri # req.redirect_uri
  THEN [status |-> 400, error |-> "invalid_grant", description |-> "redirect_uri mismatch",
        codes |-> codes, issued |-> FALSE]
  ELSE IF PkceFails(codes[req.code], req.code_verifier)
  THEN [status |-> 400, error |-> "invalid_grant", description |-> "PKCE verification failed",
        codes |-> codes, issued |-> FALSE]
  ELSE [status |-> 200, error |-> "", description |-> "",
        codes |-> Delete(codes, req.code), issued |-> TRUE]

\* GET /authorize, lines 53-79.
Authorize(response_type, client_id, redirect_uri, code_challenge, code_challenge_method) ==
  /\ IF response_type # "code"
     THEN /\ lastReply' = [NoReply EXCEPT !.endpoint = "authorize", !.status = 400,
                                          !.error = "unsupported_response_type"]
          /\ UNCHANGED <<authCodes, nextCode>>
     ELSE IF client_id # CLIENT_ID
     THEN /\ lastReply' = [NoReply EXCEPT !.endpoint = "authorize", !.status = 403,
                                          !.error = "invalid_client"]
          /\ UNCHANGED <<authCodes, nextCode>>
     ELSE /\ nextCode < MaxCodes
          /\ nextCode' = nextCode + 1
          /\ authCodes' =
               [c \in DOMAIN authCodes \cup {nextCode + 1} |->
                  IF c = nextCode + 1
                  THEN [clientId |-> client_id,
                        redirectUri |-> redirect_uri,
                        codeChallenge |-> code_challenge,
                        codeChallengeMethod |->
                          IF code_challenge_method \in {Absent, ""} THEN "plain"
                          ELSE code_challenge_method,
                        expiresAt |-> now + CODE_TTL]
                  ELSE authCodes[c]]
          /\ lastReply' = [NoReply EXCEPT !.endpoint = "authorize", !.status = 302,
                                          !.code = nextCode + 1]
  /\ UNCHANGED <<resilienceVars, accessTokens, now, minted>>

\* POST /token, lines 82-130. (The history minted counts the tokens issued
\* for the code; lastReply keeps what the code was when the request came.)
Token(req) ==
  LET r == TokenResponse(authCodes, now, req) IN
  /\ authCodes' = r.codes
  /\ accessTokens' = IF r.issued THEN accessTokens \cup {Cardinality(accessTokens) + 1}
                     ELSE accessTokens
  /\ minted' = IF r.issued THEN [minted EXCEPT ![req.code] = @ + 1] ELSE minted
  /\ lastReply' = [endpoint |-> "token", code |-> req.code, grant |-> req.grant_type,
                   status |-> r.status, error |-> r.error, description |-> r.description,
                   wasMinted |-> minted[req.code] >= 1,
                   wasExpired |-> req.code \in DOMAIN authCodes
                                  /\ authCodes[req.code].expiresAt < now]
  /\ UNCHANGED <<resilienceVars, now, nextCode>>

\* The setInterval callback, lines 23-28.
Sweep ==
  /\ authCodes' = [c \in {d \in DOMAIN authCodes : ~(authCodes[d].expiresAt < now)} |->
                     authCodes[c]]
  /\ UNCHANGED <<resilienceVars, accessTokens, now, nextCode, minted, lastReply>>

\* Date.now() advances by d ms.
Tick(d) ==
  /\ (now + d) % CODE_TTL <= MaxMillis
  /\ (now + d) \div CODE_TTL <= MaxPeriods
  /\ now' = now + d
  /\ UNCHANGED <<resilienceVars, authCodes, accessTokens, nextCode, minted, lastReply>>

TokenRequests ==
  [grant_type : GrantTypes, code : Codes, client_id : ClientIds,
   client_secret : ClientSecrets, redirect_uri : RedirectUris, code_verifier : Verifiers]

\* The OAuth endpoints, the cleanup timer and the clock.
NextOAuth ==
  \/ \E rt \in ResponseTypes, cid \in ClientIds, uri \in RedirectUris,
        ch \in Challenges, m \in ChallengeMethods : Authorize(rt, cid, uri, ch, m)
  \/ \E req \in TokenRequests : Token(req)
  \/ Sweep
  \/ \E d \in {1, CODE_TTL} : Tick(d)

SpecOAuth == Init /\ [][NextOAuth]_vars

----------------------------------------------------------------------------
\* Properties

\* Slot e takes the step in which handler k's promise resolves.
Succeeds(e, k) ==
  /\ pc[e] = "fn" /\ i[e] = k
  /\ Len(log'[e]) = Len(log[e]) + 1
  /\ log'[e][Len(log'[e])].what = "ok"

\* In slot e every handler before k was skipped as degraded in the snapshot,
\* or was attempted and failed.
EarlierSkippedOrFailed(e, k) ==
  /\ Len(log[e]) = k - 1
  /\ \A j \in 1..(k - 1) :
       /\ log[e][j].index = j
       /\ \/ /\ log[e][j].what = "skip"
             /\ getHandler(state[e], HandlerKey(tool[e], j)).degraded
          \/ log[e][j].what = "fail"

\* C1: when handler k succeeds after every handler before it was skipped as
\* degraded or attempted and failed, the execution returns handler k's
\* output as the envelope text and handler k's persisted record is
\* failures=0, degraded=false.
C1_FirstSuccessWins ==
  [][\A e \in Slots : \A k \in 1..3 :
       (Succeeds(e, k) /\ EarlierSkippedOrFailed(e, k)) =>
         /\ pc'[e] = "returned"
         /\ ret'[e] = <<ResultText(Resolves(tool[e], k))>>
         /\ HandlerKey(tool[e], k) \in DOMAIN health'
         /\ health'[HandlerKey(tool[e], k)].failures = 0
         /\ health'[HandlerKey(tool[e], k)].degraded = FALSE]_vars

\* C1's case: the third handler succeeded after a skipped and a failed one.
C1_Witness ==
  \E e \in Slots :
    /\ pc[e] = "returned" /\ tool[e] = "t1" /\ Len(log[e]) = 3
    /\ log[e][1].what = "skip" /\ log[e][2].what = "fail" /\ log[e][3].what = "ok"
    /\ ret[e] = <<"ok C">>
    /\ health["t1:C"] = Healthy

\* C2: a handler's persisted failure count is the number of its failed
\* attempts since its last success or reset, and it is degraded exactly when
\* that number has reached 3.
C2_Threshold ==
  \A k \in AllKeys :
    /\ getHandler(health, k).failures = consec[k]
    /\ getHandler(health, k).degraded <=> consec[k] >= 3

\* C2's case: one handler at its third consecutive failure, another at its
\* second.
C2_Witness ==
  /\ consec["t1:A"] = 3 /\ health["t1:A"].degraded
  /\ consec["t1:B"] = 2 /\ ~health["t1:B"].degraded

\* Slot e takes the step in which toolName is called.
Called(e, toolName) == pc[e] = "idle" /\ pc'[e] # "idle" /\ tool'[e] = toolName

\* Every handler of toolName is degraded in the persisted health state.
EveryHandlerDegraded(toolName) ==
  \A j \in 1..Len(Handlers(toolName)) :
    /\ HandlerKey(toolName, j) \in DOMAIN health
    /\ health[HandlerKey(toolName, j)].degraded

\* C3 (as claimed): with the webhook configured, in a run of consecutive
\* failures of one handler an alert is sent at the 3rd failure and at no
\* later one.
C3_AlertOncePerCrossing ==
  \A k \in AllKeys :
    /\ (webhook /\ consec[k] >= 3) => 3 \in alertedAt[k]
    /\ alertedAt[k] \subseteq {3}

\* C4: a call made when every handler of the tool is degraded invokes no
\* handler, returns the [DISABLED] text naming the tool, sends no alert and
\* leaves the health store as it was.
C4_AllDegradedDisabled ==
  [][\A e \in Slots : \A t \in Tools :
       (Called(e, t) /\ EveryHandlerDegraded(t)) =>
         /\ pc'[e] = "returned"
         /\ log'[e] = <<>>
         /\ ret'[e][1] = "[DISABLED] Tool \"" /\ ret'[e][2] = t
         /\ health' = health
         /\ alertedAt' = alertedAt /\ fetching' = fetching]_vars

\* C4's case: the three-handler tool was called with all three degraded.
C4_Witness ==
  \E e \in Slots :
    /\ pc[e] = "returned" /\ tool[e] = "t1" /\ log[e] = <<>>
    /\ EveryHandlerDegraded("t1")
    /\ ret[e][1] = "[DISABLED] Tool \""

\* C5 (as claimed): a call of a one-handler tool whose handler is degraded
\* still attempts that handler.
C5_SoleDegradedAttempted ==
  [][\A e \in Slots : \A t \in Tools :
       (Called(e, t) /\ Len(Handlers(t)) = 1 /\ EveryHandlerDegraded(t)) =>
         pc'[e] = "fn"]_vars

\* C5 (amended): a call of a one-handler tool whose handler is degraded does
\* not attempt it: it returns [DISABLED] and leaves the record as it was;
\* and whenever the handler of a one-handler tool is attempted and succeeds,
\* its record becomes failures=0, degraded=false.
C5_SoleDegradedDisabled ==
  [][\A e \in Slots : \A t \in Tools :
       /\ (Called(e, t) /\ Len(Handlers(t)) = 1 /\ EveryHandlerDegraded(t)) =>
            /\ pc'[e] = "returned"
            /\ ret'[e] = DisabledText(t)
            /\ log'[e] = <<>>
            /\ health'[HandlerKey(t, 1)] = health[HandlerKey(t, 1)]
       /\ (Succeeds(e, 1) /\ tool[e] = t /\ Len(Handlers(t)) = 1) =>
            health'[HandlerKey(t, 1)] = Healthy]_vars

\* C5's case: the one-handler tool was called with its handler degraded.
C5_Witness ==
  \E e \in Slots :
    /\ pc[e] = "returned" /\ tool[e] = "t2"
    /\ ret[e] = DisabledText("t2")
    /\ health["t2:A"].degraded /\ health["t2:A"].failures = 3

\* The records of the scenario's handlers.
Failures(k) == getHandler(health, k).failures

Degraded(k) == getHandler(health, k).degraded

\* C6: handlers [A,B,C], empty store, sequential calls in which A and B fail
\* whenever they are invoked. Calls 1-3 return C's output and leave A and B
\* at 1, 2, 3 failures (degraded, and alerted once each, after call 3) and C
\* at 0; in call 4 A and B are skipped, C is invoked, and when C fails the
\* result is [ERROR] with C's message, C is at 1 failure and not degraded,
\* and A's and B's records are as call 3 left them.
C6_Scenario ==
  /\ (scenarioCall \in 1..3 /\ pc[1] = "returned") =>
       /\ ret[1] = <<ResultText(Resolves("t1", 3))>>
       /\ Failures("t1:A") = scenarioCall /\ Failures("t1:B") = scenarioCall
       /\ Failures("t1:C") = 0 /\ ~Degraded("t1:C")
       /\ Degraded("t1:A") <=> scenarioCall = 3
       /\ Degraded("t1:B") <=> scenarioCall = 3
       /\ webhook => /\ alertedAt["t1:A"] = (IF scenarioCall = 3 THEN {3} ELSE {})
                     /\ alertedAt["t1:B"] = (IF scenarioCall = 3 THEN {3} ELSE {})
       /\ alertedAt["t1:C"] = {}
  /\ (scenarioCall = 3 /\ pc[1] \notin {"idle", "returned"}) =>
       /\ pc[1] = "fn" /\ i[1] = 3
       /\ log[1] = <<[index |-> 1, what |-> "skip"], [index |-> 2, what |-> "skip"]>>
  /\ (scenarioCall = 4 /\ pc[1] = "returned") =>
       /\ ret[1] = <<"[ERROR] Tool \"", "t1", "\" failed: ", "C failed">>
       /\ log[1] = <<[index |-> 1, what |-> "skip"], [index |-> 2, what |-> "skip"],
                     [index |-> 3, what |-> "fail", error |-> Throws("t1", 3)]>>
       /\ Failures("t1:C") = 1 /\ ~Degraded("t1:C")
       /\ health["t1:A"] = [failures |-> 3, degraded |-> TRUE, lastError |-> "A failed"]
       /\ health["t1:B"] = [failures |-> 3, degraded |-> TRUE, lastError |-> "B failed"]
       /\ webhook => alertedAt["t1:A"] = {3} /\ alertedAt["t1:B"] = {3}

\* C6's case: the fourth call of the scenario has returned.
C6_Witness == scenarioCall = 4 /\ pc[1] = "returned" /\ webhook

\* C6's earlier case: the third call of the scenario has returned.
C6_WitnessCall3 == scenarioCall = 3 /\ pc[1] = "returned" /\ webhook

\* The envelope texts an execution of toolName can return.
HandlerResultTexts(toolName) ==
  {<<ResultText(Resolves(toolName, j))>> : j \in 1..Len(Handlers(toolName))}

ErrorTexts(toolName) ==
  {<<"[ERROR] Tool \"", toolName, "\" failed: ", ErrorMsg(Throws(toolName, j))>> :
     j \in 1..Len(Handlers(toolName))}

IsErrorText(text) == Len(text) = 4 /\ text[1] = "[ERROR] Tool \""

\* C7: with a health file that can be read and written, an execution never
\* ends in a raised exception, and the envelope it returns holds a handler's
\* result, the [DISABLED] message or an [ERROR] message.
C7_NeverRaises ==
  \A e \in Slots :
    /\ pc[e] # "raised"
    /\ pc[e] = "returned" =>
         ret[e] \in HandlerResultTexts(tool[e]) \cup {DisabledText(tool[e])}
                      \cup ErrorTexts(tool[e])

\* C7's case: an execution returned after its handlers failed and the
\* delivery of its alert failed as well.
C7_Witness ==
  \E e \in Slots :
    /\ pc[e] = "returned" /\ IsErrorText(ret[e])
    /\ lastFetch[e] = "rejected"
    /\ \E j \in 1..Len(log[e]) : log[e][j].what = "fail"

\* C8 (as claimed): a failed write of the health file never surfaces: the
\* execution does not raise, and a handler that succeeded is reported as the
\* success result and not taken for a failed attempt.
C8_WriteFailureContained ==
  \A e \in Slots :
    /\ pc[e] # "raised"
    /\ (Len(log[e]) > 0 /\ log[e][Len(log[e])].what = "ok") =>
         /\ pc[e] = "returned"
         /\ ret[e] = <<ResultText(log[e][Len(log[e])].value)>>
         /\ lastError[e] # WriteError

\* C9: an [ERROR] envelope is returned only when at least one handler was
\* attempted and every attempted handler failed; its message is the error of
\* the last handler attempted, which is the final handler of the list, and
\* not the error of an earlier handler.
C9_ErrorIsLastFailure ==
  \A e \in Slots :
    (pc[e] = "returned" /\ IsErrorText(ret[e])) =>
      LET n == Len(log[e]) IN
      /\ n = Len(Handlers(tool[e]))
      /\ \A j \in 1..n : log[e][j].what \in {"skip", "fail"}
      /\ log[e][n].what = "fail" /\ log[e][n].index = Len(Handlers(tool[e]))
      /\ ret[e][4] = ErrorMsg(log[e][n].error)
      /\ \A j \in 1..(n - 1) :
           log[e][j].what = "fail" => ret[e][4] # ErrorMsg(log[e][j].error)

\* C9's case: two handlers failed in one call and [ERROR] was returned.
C9_Witness ==
  \E e \in Slots :
    /\ pc[e] = "returned" /\ IsErrorText(ret[e])
    /\ Len(log[e]) = 3
    /\ log[e][1].what = "fail" /\ log[e][2].what = "fail" /\ log[e][3].what = "fail"

\* C10 (as claimed): the alert is not awaited: while its delivery is
\* outstanding, the execution that sent it is already at the next handler or
\* has returned.
C10_AlertNotAwaited ==
  \A e \in Slots : fetching[e] => pc[e] \in {"fn", "returned"}

\* What slot e's execution and the store can be after a delivery settles.
SettledAs(e, p, n, text) ==
  /\ pc'[e] = p /\ i'[e] = n /\ ret'[e] = text
  /\ health' = health /\ lastError' = lastError

\* The delivery of slot e's alert is outstanding.
Delivering(e) == pc[e] = "alert" /\ fetching[e]

\* C11: a failed delivery of the alert ends the delivery (there is no second
\* attempt), does not raise out of the execution, and lets the execution go
\* on to the same position, envelope and persisted health state as a
\* delivery that succeeded; and with no webhook URL nothing is ever sent.
C11_AlertFailureContained ==
  /\ \A e \in Slots : Delivering(e) =>
       /\ ENABLED AlertSettle(e, "rejected")
       /\ ~ENABLED (AlertSettle(e, "rejected") /\ pc'[e] \in {"raised", "alert"})
       /\ ~ENABLED (AlertSettle(e, "rejected") /\ (fetching'[e] \/ alertBody'[e] # NoValue))
       /\ \A p \in {"fn", "returned", "raised"} : \A n \in 0..4 :
          \A text \in {NoValue} \cup ErrorTexts(tool[e]) :
            ENABLED (AlertSettle(e, "rejected") /\ SettledAs(e, p, n, text))
              <=> ENABLED (AlertSettle(e, "resolved") /\ SettledAs(e, p, n, text))
       /\ \E p \in {"fn", "returned"} : \E n \in 1..4 :
          \E text \in {NoValue} \cup ErrorTexts(tool[e]) :
            /\ ENABLED (AlertSettle(e, "rejected") /\ SettledAs(e, p, n, text))
            /\ ENABLED (AlertSettle(e, "resolved") /\ SettledAs(e, p, n, text))
  /\ ~webhook =>
       /\ \A e \in Slots : ~fetching[e] /\ alertBody[e] = NoValue
                           /\ lastFetch[e] \in {"none", "not sent"}
       /\ \A k \in AllKeys : alertedAt[k] = {}

\* C11's case: the delivery of A's alert failed and the execution is at B.
C11_Witness ==
  \E e \in Slots :
    /\ lastFetch[e] = "rejected" /\ pc[e] = "fn" /\ i[e] = 2
    /\ health["t1:A"].degraded

\* C12: resetTool is idempotent: in a state reached by resetTool(tool,
\* handler), with nothing written to the store since, a second
\* resetTool(tool, handler) can be made and leaves the persisted health
\* state exactly as the first one left it.
C12_ResetIdempotent ==
  \A t \in Tools : \A j \in 1..Len(Handlers(t)) :
    resetRun.key = HandlerKey(t, j) =>
      /\ ENABLED ResetTool(t, j)
      /\ ~ENABLED (ResetTool(t, j) /\ health' # health)

\* C12's case: the last handler has been reset, in a store where A has one
\* failure and B is degraded.
C12_Witness ==
  /\ resetRun = [key |-> "t1:C", wasDisabled |-> FALSE]
  /\ consec["t1:A"] = 1 /\ Degraded("t1:B")
  /\ "t1:C" \in DOMAIN health /\ health["t1:C"] = Healthy
  /\ ENABLED ResetTool("t1", 3)

\* The step is a resetTool call for the handler of key k (or leaves the
\* state such a call produced as it is).
ResetOf(k) ==
  /\ slotVars' = slotVars /\ writable' = writable
  /\ resetRun'.key = k

\* The handler keys of toolName.
KeysOf(toolName) == {HandlerKey(toolName, j) : j \in 1..Len(Handlers(toolName))}

\* C13: resetTool(tool, handler) leaves that handler's record at failures=0,
\* degraded=false and every other record of the store as it was, adding and
\* removing none; and the next call of a tool whose handlers were all
\* degraded before the reset does not return [DISABLED]: it goes on to
\* attempt a handler.
C13_ResetFrame ==
  [][/\ \A k \in AllKeys :
          ResetOf(k) =>
            /\ k \in DOMAIN health' /\ health'[k] = Healthy
            /\ DOMAIN health' = DOMAIN health \cup {k}
            /\ \A k2 \in DOMAIN health \ {k} : health'[k2] = health[k2]
     /\ \A e \in Slots : \A t \in Tools :
          (Called(e, t) /\ resetRun.key \in KeysOf(t) /\ resetRun.wasDisabled) =>
            /\ pc'[e] = "fn"
            /\ ret'[e] = NoValue
            /\ HandlerKey(t, i'[e]) = resetRun.key]_vars

\* C13's case: all three handlers were degraded, B was reset, and the next
\* call has skipped A and is attempting B.
C13_Witness ==
  \E e \in Slots :
    /\ pc[e] = "fn" /\ tool[e] = "t1" /\ i[e] = 2
    /\ log[e] = <<[index |-> 1, what |-> "skip"]>>
    /\ resetRun = [key |-> "t1:B", wasDisabled |-> TRUE]
    /\ Degraded("t1:A") /\ Degraded("t1:C")
    /\ health["t1:B"] = Healthy

\* C14: a call made while the health file is missing or does not parse does
\* not raise and does not return [DISABLED]: its snapshot is the empty
\* mapping, in which every handler reads as failures=0, degraded=false, and
\* it attempts the first handler of the list; and the first write after such
\* a load saves the empty mapping with the one record written.
C14_BadStoreIsEmpty ==
  [][/\ \A e \in Slots : \A t \in Tools :
          (Called(e, t) /\ fileState \in {"missing", "garbage"}) =>
            /\ pc'[e] = "fn" /\ i'[e] = 1 /\ log'[e] = <<>>
            /\ DOMAIN state'[e] = {}
            /\ \A k \in KeysOf(t) : getHandler(state'[e], k) = Healthy
     /\ (fileState # "object" /\ fileState' = "object") =>
          \E k \in AllKeys :
            /\ DOMAIN health' = {k}
            /\ health'[k].failures <= 1 /\ ~health'[k].degraded]_vars

\* C14's case: the file held three degraded records when it was damaged, and
\* the next call is attempting the first handler.
C14_Witness ==
  \E e \in Slots :
    /\ fileState = "garbage" /\ EveryHandlerDegraded("t1")
    /\ pc[e] = "fn" /\ tool[e] = "t1" /\ i[e] = 1
    /\ DOMAIN state[e] = {}

\* C14's other case: the file is missing and the one-handler tool's call is
\* attempting its handler.
C14_WitnessMissing ==
  \E e \in Slots :
    /\ fileState = "missing" /\ scenarioCall = -1
    /\ pc[e] = "fn" /\ tool[e] = "t2" /\ i[e] = 1

\* Slot e takes the step in which the attempt of the handler of key k fails.
FailsAt(e, k) ==
  /\ pc[e] = "fn" /\ HandlerKey(tool[e], i[e]) = k
  /\ Len(log'[e]) > Len(log[e])
  /\ log'[e][Len(log[e]) + 1].what = "fail"
  /\ log'[e][Len(log[e]) + 1].index = i[e]

\* Slot e takes the step in which the attempt of the handler of key k succeeds.
SucceedsAt(e, k) == Succeeds(e, i[e]) /\ HandlerKey(tool[e], i[e]) = k

\* C15: a handler's degraded flag goes from false to true only in a step in
\* which an attempt of that handler fails and its count goes from 2 to the
\* threshold 3, and from true to false only in a step in which an attempt of
\* that handler succeeds or resetTool is called for it; every other step
\* (another handler's outcome, a skip, a [DISABLED] return, an alert) leaves
\* the flag as it was.
C15_FlagTransitions ==
  [][\A k \in AllKeys :
       /\ (~Degraded(k) /\ getHandler(health', k).degraded) =>
            /\ \E e \in Slots : FailsAt(e, k)
            /\ Failures(k) = FAILURE_THRESHOLD - 1
            /\ getHandler(health', k).failures = FAILURE_THRESHOLD
       /\ (Degraded(k) /\ ~getHandler(health', k).degraded) =>
            \/ \E e \in Slots : SucceedsAt(e, k)
            \/ ResetOf(k)]_vars

\* C15's case: the last handler, degraded when the call began, was attempted
\* and succeeded, and its flag is cleared, while B's third failure in the
\* same call has set B's flag.
C15_Witness ==
  \E e \in Slots :
    /\ pc[e] = "returned" /\ tool[e] = "t1" /\ Len(log[e]) = 3
    /\ log[e][2].what = "fail" /\ log[e][3].what = "ok"
    /\ getHandler(state[e], "t1:C").degraded /\ ~getHandler(state[e], "t1:B").degraded
    /\ health["t1:C"] = Healthy /\ health["t1:B"].degraded

\* C16: in every persisted health state, a degraded record has at least 3
\* failures, and the two fields of a record agree: a record at 0 failures is
\* exactly the record a success or a reset writes (failures=0,
\* degraded=false, no error text), and no record has its flag cleared with
\* its count left at 3 or more.
C16_RecordConsistent ==
  \A k \in DOMAIN health :
    /\ health[k].degraded => health[k].failures >= FAILURE_THRESHOLD
    /\ health[k].failures = 0 => health[k] = Healthy
    /\ health[k].failures >= FAILURE_THRESHOLD => health[k].degraded

\* C16's case: every handler was degraded, C at 4 failures, and A has been
\* reset.
C16_Witness ==
  /\ resetRun = [key |-> "t1:A", wasDisabled |-> TRUE]
  /\ "t1:A" \in DOMAIN health /\ health["t1:A"] = Healthy
  /\ Failures("t1:C") = 4 /\ Degraded("t1:C")
  /\ Failures("t1:B") = 3 /\ Degraded("t1:B")

\* Every handler of toolName is degraded in the store and no execution of
\* toolName is in flight.
Disabled(toolName) ==
  /\ EveryHandlerDegraded(toolName)
  /\ \A e \in Slots : pc[e] \in {"fn", "alert"} => tool[e] # toolName

\* C17: from a state in which every handler of a tool is degraded and no
\* execution of the tool is in flight, every step other than a resetTool for
\* one of the tool's handlers leaves the tool's records as they were and the
\* tool disabled, and a call of the tool made in that step returns
\* [DISABLED] without attempting a handler or writing the store.
C17_DisabledAbsorbing ==
  [][\A t \in Tools :
       Disabled(t) =>
         \/ \E k \in KeysOf(t) : ResetOf(k)
         \/ /\ \A k \in KeysOf(t) : k \in DOMAIN health' /\ health'[k] = health[k]
            /\ \A e \in Slots :
                 Called(e, t) =>
                   /\ pc'[e] = "returned"
                   /\ ret'[e][1] = "[DISABLED] Tool \"" /\ ret'[e][2] = t
                   /\ log'[e] = <<>>
                   /\ health' = health
            /\ \A e \in Slots : pc'[e] \in {"fn", "alert"} => tool'[e] # t]_vars

\* C17's case: the three-handler tool stayed disabled through a reset of the
\* other tool's handler, and its call returned [DISABLED].
C17_Witness ==
  \E e \in Slots :
    /\ pc[e] = "returned" /\ tool[e] = "t1" /\ log[e] = <<>>
    /\ Len(ret[e]) = 3 /\ ret[e][1] = "[DISABLED] Tool \""
    /\ EveryHandlerDegraded("t1") /\ Failures("t1:C") = 4
    /\ resetRun.key = "t2:A"

\* The handlers slot e has invoked and seen settle, in order.
Attempts(e) == SelectSeq(log[e], LAMBDA x : x.what \in {"ok", "fail"})

\* C18: within one execution the handlers are invoked in increasing list
\* order, each at most once and one at a time: while a handler is being
\* invoked (or its alert is being sent) every earlier invocation has ended
\* in a failure and none is of that handler or a later one; and a handler
\* that succeeds is the last one invoked, the execution having returned.
C18_OneAtATimeInOrder ==
  \A e \in Slots :
    LET a == Attempts(e) IN
    /\ \A m, n \in 1..Len(a) : m < n => a[m].index < a[n].index
    /\ \A m \in 1..Len(log[e]) : log[e][m].index = m
    /\ \A m \in 1..(Len(a) - 1) : a[m].what = "fail"
    /\ pc[e] = "fn" =>
         /\ i[e] \in 1..Len(Handlers(tool[e]))
         /\ \A m \in 1..Len(a) : a[m].what = "fail" /\ a[m].index < i[e]
    /\ pc[e] = "alert" =>
         /\ Len(a) > 0 /\ a[Len(a)].what = "fail" /\ a[Len(a)].index = i[e]
    /\ (Len(a) > 0 /\ a[Len(a)].what = "ok") => pc[e] = "returned"

\* C18's case: the first two handlers were invoked and failed, and the third
\* is being invoked.
C18_Witness ==
  \E e \in Slots :
    /\ pc[e] = "fn" /\ i[e] = 3
    /\ Len(log[e]) = 2 /\ log[e][1].what = "fail" /\ log[e][2].what = "fail"

\* C18's other case: the second handler succeeded after the first failed,
\* and the third was not invoked.
C18_WitnessSuccess ==
  \E e \in Slots :
    /\ pc[e] = "returned" /\ tool[e] = "t1"
    /\ Len(log[e]) = 2 /\ log[e][1].what = "fail" /\ log[e][2].what = "ok"

\* Handler j of slot e's tool is degraded in the snapshot the execution took
\* when it was called.
DegradedInSnapshot(e, j) ==
  /\ HandlerKey(tool[e], j) \in DOMAIN state[e]
  /\ state[e][HandlerKey(tool[e], j)].degraded

\* C19: in an execution that has entered the loop, a handler the loop has
\* reached was skipped if and only if it is degraded in the snapshot and is
\* not the last of the list; so a handler being invoked is not degraded in
\* the snapshot or is the last one, and the last one is never skipped.
C19_SkipRule ==
  \A e \in Slots :
    LET n == Len(Handlers(tool[e])) IN
    pc[e] # "idle" =>
      /\ \A m \in 1..Len(log[e]) :
           /\ log[e][m].index = m
           /\ log[e][m].what = "skip" <=> (DegradedInSnapshot(e, m) /\ m < n)
      /\ pc[e] = "fn" =>
           /\ Len(log[e]) = i[e] - 1
           /\ ~(DegradedInSnapshot(e, i[e]) /\ i[e] < n)

\* C19's case: A failed, B was skipped as degraded, and C, the last handler,
\* is being invoked although it is degraded in the snapshot.
C19_Witness ==
  \E e \in Slots :
    /\ pc[e] = "fn" /\ tool[e] = "t1" /\ i[e] = 3
    /\ Len(log[e]) = 2 /\ log[e][1].what = "fail" /\ log[e][2].what = "skip"
    /\ DegradedInSnapshot(e, 3)

\* C20 (as claimed): whenever an execution has skipped handler m, some
\* handler after m in the list is not degraded in the execution's snapshot.
C20_SkippedForUsableFallback ==
  \A e \in Slots :
    pc[e] # "idle" =>
      \A m \in 1..Len(log[e]) :
        log[e][m].what = "skip" =>
          \E j \in (m + 1)..Len(Handlers(tool[e])) : ~DegradedInSnapshot(e, j)

\* C21: an execution's snapshot is the store as it was when the call was
\* made and does not change while the execution is in flight; the call
\* returns [DISABLED] exactly when every handler is degraded in the
\* snapshot, and each handler the loop has reached was skipped exactly when
\* it is degraded in the snapshot and not the last, whatever the store holds
\* by then; and the outcome of each attempt is written to the store, on top
\* of the store's current record, in the step in which the attempt settles.
C21_SnapshotDecides ==
  [][\A e \in Slots :
       /\ (pc[e] # "idle" /\ pc'[e] # "idle") => state'[e] = state[e]
       /\ \A t \in Tools :
            Called(e, t) =>
              /\ state'[e] = health
              /\ (pc'[e] = "returned" /\ log'[e] = <<>>) <=>
                   \A j \in 1..Len(Handlers(t)) :
                     getHandler(health, HandlerKey(t, j)).degraded
       /\ pc'[e] # "idle" =>
            \A m \in 1..Len(log'[e]) :
              log'[e][m].what = "skip" <=>
                /\ getHandler(state'[e], HandlerKey(tool'[e], m)).degraded
                /\ m < Len(Handlers(tool'[e]))
       /\ \A k \in AllKeys :
            /\ FailsAt(e, k) =>
                 /\ k \in DOMAIN health'
                 /\ health'[k].failures = getHandler(health, k).failures + 1
            /\ SucceedsAt(e, k) =>
                 k \in DOMAIN health' /\ health'[k] = Healthy]_vars

\* C21's case: B was degraded in the store by another execution after this
\* one took its snapshot, and this one is attempting B all the same.
C21_Witness ==
  \E e \in Slots :
    /\ pc[e] = "fn" /\ tool[e] = "t1" /\ i[e] = 2
    /\ ~DegradedInSnapshot(e, 2) /\ Degraded("t1:B")

\* C22: with several executions in flight no update of the store is lost:
\* in every state each handler's persisted failure count is the number of
\* its failed attempts recorded since its last recorded success or reset,
\* and a step that records one handler's outcome leaves every other record
\* of the store, whichever execution wrote it, as it was.
C22_NoLostUpdate ==
  /\ [](\A k \in AllKeys : getHandler(health, k).failures = consec[k])
  /\ [][\A e \in Slots : \A k \in AllKeys :
          (FailsAt(e, k) \/ SucceedsAt(e, k)) =>
            /\ DOMAIN health' = DOMAIN health \cup {k}
            /\ \A k2 \in DOMAIN health \ {k} : health'[k2] = health[k2]]_vars

\* C22's case: two executions took the empty snapshot, the first handler
\* failed in both, and its count is 2 while both are at the second handler.
C22_Witness ==
  /\ pc[1] = "fn" /\ pc[2] = "fn" /\ tool[1] = "t1" /\ tool[2] = "t1"
  /\ i[1] = 2 /\ i[2] = 2
  /\ DOMAIN state[1] = {} /\ DOMAIN state[2] = {}
  /\ health["t1:A"].failures = 2 /\ consec["t1:A"] = 2

\* C22's other case: all executions have completed after concurrent failures
\* of different handlers of one tool.
C22_WitnessQuiet ==
  /\ Quiet /\ calls = 2
  /\ Failures("t1:A") = 2 /\ Failures("t1:B") = 2 /\ Failures("t1:C") = 1

\* C23: in a list of two or more handlers, an execution in which a handler
\* failed does not end in [ERROR] without having attempted the last handler,
\* degraded or not; when the last handler is attempted although degraded in
\* the snapshot and succeeds, its record becomes failures=0, degraded=false
\* with no resetTool; and a later call of a tool whose last handler is not
\* degraded is not answered [DISABLED].
C23_SelfHeal ==
  /\ [](\A e \in Slots :
          (pc[e] = "returned" /\ IsErrorText(ret[e])) =>
            /\ Len(log[e]) = Len(Handlers(tool[e]))
            /\ log[e][Len(log[e])].what = "fail")
  /\ [][\A e \in Slots :
          /\ \A k \in AllKeys :
               (/\ SucceedsAt(e, k)
                /\ Len(Handlers(tool[e])) >= 2 /\ i[e] = Len(Handlers(tool[e]))
                /\ DegradedInSnapshot(e, i[e])) =>
                 /\ k \in DOMAIN health' /\ health'[k] = Healthy
                 /\ resetRun' = NoReset
          /\ \A t \in Tools :
               (/\ Called(e, t)
                /\ ~getHandler(health, HandlerKey(t, Len(Handlers(t)))).degraded) =>
                 pc'[e] = "fn"]_vars

\* C23's case: A failed, B was skipped, and C, degraded in the snapshot, was
\* attempted and succeeded: C's record is healthy again.
C23_Witness ==
  \E e \in Slots :
    /\ pc[e] = "returned" /\ tool[e] = "t1" /\ Len(log[e]) = 3
    /\ log[e][1].what = "fail" /\ log[e][2].what = "skip" /\ log[e][3].what = "ok"
    /\ ~DegradedInSnapshot(e, 1) /\ DegradedInSnapshot(e, 3)
    /\ health["t1:C"] = Healthy

\* C24 (as claimed): a key gets a record only in a step in which an attempt
\* of its handler fails, so a key whose handler has never failed has no
\* record.
C24_CreatedByFailureOnly ==
  [][\A k \in AllKeys :
       (k \notin DOMAIN health /\ k \in DOMAIN health') =>
         \E e \in Slots : FailsAt(e, k)]_vars

\* C24 (amended): a key gets a record in the step that records the first
\* outcome of its handler, a failure or a success, or in a resetTool for it,
\* and in no other step; a record created by a success or a reset is
\* failures=0, degraded=false; after any recorded outcome the key has a
\* record; and no record is ever removed.
C24_CreatedByFirstOutcome ==
  [][\A k \in AllKeys :
       /\ (k \notin DOMAIN health /\ k \in DOMAIN health') =>
            \/ \E e \in Slots : FailsAt(e, k)
            \/ (\E e \in Slots : SucceedsAt(e, k)) /\ health'[k] = Healthy
            \/ ResetOf(k) /\ health'[k] = Healthy
       /\ (\E e \in Slots : FailsAt(e, k) \/ SucceedsAt(e, k)) => k \in DOMAIN health'
       /\ k \in DOMAIN health => k \in DOMAIN health']_vars

\* C24's case: the one-handler tool was called on a store without a record
\* for its handler, the handler succeeded, and the store now holds its
\* record.
C24_Witness ==
  \E e \in Slots :
    /\ pc[e] = "returned" /\ tool[e] = "t2"
    /\ Len(log[e]) = 1 /\ log[e][1].what = "ok"
    /\ "t2:A" \notin DOMAIN state[e]
    /\ "t2:A" \in DOMAIN health /\ health["t2:A"] = Healthy

\* C25 (as claimed): an alert sent for a failed attempt names the handler as
\* tool:handler, carries the message of that failure, and carries as
\* failureCount the handler's persisted failure count as that failure left
\* it.
C25_AlertCarriesCount ==
  [][\A e \in Slots : \A k \in AllKeys :
       (FailsAt(e, k) /\ fetching'[e]) =>
         /\ alertBody'[e].tool = k
         /\ alertBody'[e].error = ErrorMsg(log'[e][Len(log'[e])].error)
         /\ alertBody'[e].failureCount = health'[k].failures]_vars

\* Slot e takes the step in which the awaited alertN8n call settles.
AlertSettles(e) == pc[e] = "alert" /\ pc'[e] # "alert"

\* C26: in the step in which a failure brings a handler's count to the
\* threshold, the store holds the handler's record with degraded=true as the
\* alert call is made (the alert being sent only if the webhook is
\* configured); and the step in which the alert settles, delivered, failed
\* or not sent, leaves the store as it is.
C26_PersistedBeforeAlert ==
  [][\A e \in Slots :
       /\ \A k \in AllKeys :
            (FailsAt(e, k) /\ getHandler(health, k).failures = FAILURE_THRESHOLD - 1) =>
              /\ k \in DOMAIN health'
              /\ health'[k].degraded /\ health'[k].failures = FAILURE_THRESHOLD
              /\ pc'[e] = "alert"
              /\ fetching'[e] <=> webhook
       /\ (pc'[e] = "alert" /\ pc[e] # "alert") =>
            /\ HandlerKey(tool[e], i[e]) \in DOMAIN health'
            /\ health'[HandlerKey(tool[e], i[e])].degraded
       /\ AlertSettles(e) =>
            /\ health' = health
            /\ lastFetch'[e] \in {"resolved", "rejected", "not sent"}]_vars

\* C26's case: no webhook is configured, the one-handler tool's handler
\* failed a third time, no alert was sent, and the record is degraded.
C26_Witness ==
  \E e \in Slots :
    /\ ~webhook /\ lastFetch[e] = "not sent"
    /\ pc[e] = "returned" /\ tool[e] = "t2" /\ IsErrorText(ret[e])
    /\ health["t2:A"].degraded /\ health["t2:A"].failures = 3

\* C26's other case: the delivery failed and the record is degraded.
C26_WitnessRejected ==
  \E e \in Slots :
    /\ lastFetch[e] = "rejected"
    /\ pc[e] = "returned" /\ tool[e] = "t2" /\ IsErrorText(ret[e])
    /\ health["t2:A"].degraded /\ health["t2:A"].failures = 3

\* The step leaves the record of key k, or its absence, as it was.
RecordUnchanged(k) ==
  /\ k \in DOMAIN health' <=> k \in DOMAIN health
  /\ k \in DOMAIN health => health'[k] = health[k]

\* Slot e's execution takes the step.
StepOf(e) == pc'[e] # pc[e] \/ log'[e] # log[e] \/ i'[e] # i[e]

\* C27: a step of an execution changes no record but that of the handler
\* whose attempt settles in the step: the records of the handlers it skips
\* in the step, of the handlers after one that succeeds, and of every other
\* tool's handlers are as they were; a call answered [DISABLED] and the
\* settling of an alert change no record at all.
C27_FrameOfExecution ==
  [][\A e \in Slots :
       StepOf(e) =>
         /\ \A k \in AllKeys :
              \/ pc[e] = "fn" /\ k = HandlerKey(tool[e], i[e])
              \/ RecordUnchanged(k)
         /\ pc[e] # "fn" => health' = health
         /\ \A m \in (Len(log[e]) + 1)..Len(log'[e]) :
              log'[e][m].what = "skip" => RecordUnchanged(HandlerKey(tool'[e], m))
         /\ (pc[e] = "fn" /\ pc'[e] = "returned" /\ log'[e][Len(log'[e])].what = "ok") =>
              /\ Len(log'[e]) = i[e]
              /\ \A j \in (i[e] + 1)..Len(Handlers(tool[e])) :
                   RecordUnchanged(HandlerKey(tool[e], j))]_vars

\* C27's case: A failed and B succeeded in a call of the three-handler tool
\* while C and the other tool's handler have failure records: those two
\* records are as the call found them.
C27_Witness ==
  \E e \in Slots :
    /\ pc[e] = "returned" /\ tool[e] = "t1" /\ Len(log[e]) = 2
    /\ log[e][1].what = "fail" /\ log[e][2].what = "ok"
    /\ "t1:C" \in DOMAIN state[e] /\ state[e]["t1:C"].failures = 2
    /\ health["t1:C"] = state[e]["t1:C"]
    /\ "t2:A" \in DOMAIN state[e] /\ state[e]["t2:A"].degraded
    /\ health["t2:A"] = state[e]["t2:A"]

\* The record the store holds for the pair q, as getHandler reads it.
RecordOf(st, q) == getHandler(st, KeyOf(q[1], q[2]))

\* C28 (as claimed): two different (toolName, handlerName) pairs never share
\* a record: an operation for one pair leaves the record of every other pair
\* as it was, also for names that contain ':'.
C28_KeyUniquePerPair ==
  [][\A q \in KeyPairs :
       (lastPair' # NoPair /\ q # lastPair') =>
         RecordOf(health', q) = RecordOf(health, q)]_vars

\* C29: once every handler of a tool fails on every attempt and resetTool is
\* no longer called, whatever the health state was, after 3 sequential
\* executions of the tool every one of its handlers is degraded, and every
\* execution after them returns [DISABLED] without invoking a handler; when
\* the store was empty, executions 1 to 3 do not return [DISABLED] and the
\* 4th is the first that does.
C29_DisabledWithinThree ==
  regime # NoRegime =>
    /\ regime.done >= FAILURE_THRESHOLD =>
         /\ EveryHandlerDegraded(regime.tool)
         /\ \A e \in Slots :
              /\ pc[e] \notin {"fn", "alert", "raised"}
              /\ pc[e] = "returned" =>
                   ret[e] = DisabledText(regime.tool) /\ log[e] = <<>>
    /\ regime.fromEmpty =>
         \A e \in Slots :
           pc[e] = "returned" =>
             (ret[e] = DisabledText(regime.tool) <=> regime.done >= FAILURE_THRESHOLD)

\* C29's case: from the empty store the three executions of the
\* three-handler tool have failed, and the 4th has returned [DISABLED].
C29_Witness ==
  /\ regime.tool = "t1" /\ regime.fromEmpty /\ regime.done = 3
  /\ pc[1] = "returned" /\ ret[1] = DisabledText("t1")
  /\ Failures("t1:A") = 3 /\ Failures("t1:B") = 3 /\ Failures("t1:C") = 3

\* C29's case from a store in use: the last handler was degraded before the
\* handlers began to fail, the first two were not, and the last one has been
\* invoked in each of the three executions.
C29_WitnessInUse ==
  /\ regime.tool = "t1" /\ ~regime.fromEmpty /\ regime.done = 3
  /\ pc[1] = "returned" /\ ret[1] = DisabledText("t1")
  /\ Failures("t1:A") = 3 /\ Failures("t1:B") = 3 /\ Failures("t1:C") = 6

\* C30: for each authorization code /token issues at most one access token,
\* and none for a code /authorize has not issued; an authorization_code
\* exchange of a code that has already yielded a token is answered 400
\* invalid_grant, and so is the exchange of a stored code whose expiry has
\* passed, which also removes the code from authCodes.
C30_CodeSingleUse ==
  /\ \A c \in Codes : minted[c] <= 1 /\ (minted[c] = 1 => c <= nextCode)
  /\ Cardinality(accessTokens) <= nextCode
  /\ (lastReply.endpoint = "token" /\ lastReply.grant = "authorization_code") =>
       /\ lastReply.wasMinted =>
            lastReply.status = 400 /\ lastReply.error = "invalid_grant"
       /\ lastReply.wasExpired =>
            /\ lastReply.status = 400 /\ lastReply.error = "invalid_grant"
            /\ lastReply.code \notin DOMAIN authCodes
            /\ minted[lastReply.code] = 0

\* C30's case: the first code was exchanged for a token, and a later
\* exchange of it, before its expiry, was rejected.
C30_Witness ==
  /\ lastReply.endpoint = "token" /\ lastReply.grant = "authorization_code"
  /\ lastReply.code = 1 /\ lastReply.wasMinted /\ lastReply.error = "invalid_grant"
  /\ minted[1] = 1 /\ accessTokens = {1} /\ now < CODE_TTL

\* C30's other case: a stored code was presented 1 ms after its expiry.
C30_WitnessExpired ==
  /\ lastReply.endpoint = "token" /\ lastReply.wasExpired /\ lastReply.code = 1
  /\ lastReply.error = "invalid_grant" /\ now = CODE_TTL + 1

====
